---------------------------- MODULE Spec2Model ----------------------------
(***************************************************************************)
(* Model of onebrrrc (src/onebrrrc/src/main.rs): the chunk splitter, the   *)
(* SIMD byte search, the fixed-point temperature parser, the per-thread    *)
(* aggregation loop, and main's spawn / join / merge pipeline.             *)
(*                                                                         *)
(* Byte slices are sequences of byte values.  Offsets are 0-based as in    *)
(* the Rust source; ByteAt and Slice translate them to 1-based sequences.  *)
(* Option<usize> is a record [some, val]; a call that can panic returns a  *)
(* record with an ok field.                                                *)
(***************************************************************************)
EXTENDS Integers, Sequences, FiniteSets, TLC

VARIABLES
    overflow_checks, \* build profile: TRUE = debug (arithmetic overflow panics), FALSE = release (wraps)
    needle, haystack, found, mpc,                    \* a call of memchr
    temp, parsed, tpc,                               \* a call of parse_temp_fast
    data, approximate_chunk_size, start, chunks, spc,\* split_at_newlines and its loop
    cdata, pos, cstats, cpc,                         \* process_chunk and its loop
    n_threads, main_pc, wpc, wpos, wstats, handle_idx, chunk_stats, stats, \* main and its threads
    runs,                                            \* outcomes of whole runs, per worker count
    tables, pool                                     \* worker tables and partial merges

memVars   == <<needle, haystack, found, mpc>>
parseVars == <<temp, parsed, tpc>>
splitVars == <<approximate_chunk_size, start, chunks, spc>>
chunkVars == <<cdata, pos, cstats, cpc>>
mainVars  == <<n_threads, main_pc, wpc, wpos, wstats, handle_idx, chunk_stats, stats>>
mergeVars == <<tables, pool>>
vars == <<overflow_checks, memVars, parseVars, data, splitVars, chunkVars, mainVars, runs, mergeVars>>

-----------------------------------------------------------------------------
(* Bytes the code names, and the SIMD vector width. *)
SIMD_WIDTH == 32
NEWLINE == 10
SEMICOLON == 59
MINUS == 45
DOT == 46
ZERO == 48

(* Bounds of the model. *)
MaxHaystackLen == 66
MaxBufLen == 7
MaxRecords == 3
MaxThreads == 3
MaxTables == 3

-----------------------------------------------------------------------------
(* Rust slices, Option and integer arithmetic. *)

Some(x) == [some |-> TRUE, val |-> x]
None == [some |-> FALSE, val |-> 0]

\* s[i] for a 0-based index i
ByteAt(s, i) == s[i + 1]

\* &s[a..b] for 0 <= a <= b <= len
Slice(s, a, b) == SubSeq(s, a + 1, b)

\* s[a..]
SliceFrom(s, a) == SubSeq(s, a + 1, Len(s))

MinOf(a, b) == IF a <= b THEN a ELSE b
MaxOf(a, b) == IF a >= b THEN a ELSE b

InI16(x) == -32768 <= x /\ x <= 32767
WrapI16(x) == ((x + 32768) % 65536) - 32768

\* An i16 operation whose mathematical result is x: panics under overflow
\* checks, wraps in two's complement without them.
ArithI16(x, checks) ==
    IF InI16(x) THEN [ok |-> TRUE, val |-> x]
    ELSE IF checks THEN [ok |-> FALSE, val |-> 0]
    ELSE [ok |-> TRUE, val |-> WrapI16(x)]

\* The u8 subtraction byte - b'0'.
SubU8(byte, checks) ==
    IF byte >= ZERO THEN [ok |-> TRUE, val |-> byte - ZERO]
    ELSE IF checks THEN [ok |-> FALSE, val |-> 0]
    ELSE [ok |-> TRUE, val |-> byte - ZERO + 256]

-----------------------------------------------------------------------------
(* memchr: main.rs 106-136 *)

\* Iterator::position(|&b| b == needle) over a slice: scan from index i.
RECURSIVE Position(_, _, _)
Position(s, byte, i) ==
    IF i >= Len(s) THEN None
    ELSE IF ByteAt(s, i) = byte THEN Some(i)
    ELSE Position(s, byte, i + 1)

\* The scalar tail with the offset of the tail slice left out.
ScalarTailNoOffset(byte, hay, p) ==
    Position(SliceFrom(hay, p), byte, 0)

\* haystack[pos..].iter().position(..).map(|p| pos + p)
ScalarTail(byte, hay, p) ==
    LET r == Position(SliceFrom(hay, p), byte, 0)
    IN IF r.some THEN Some(p + r.val) ELSE None

\* The 32-byte vector loop, from offset p.
RECURSIVE SimdLoop(_, _, _)
SimdLoop(byte, hay, p) ==
    IF p + SIMD_WIDTH <= Len(hay)
    THEN LET mask == {i \in 0..(SIMD_WIDTH - 1) : ByteAt(hay, p + i) = byte}
         IN IF mask /= {}
            THEN Some(p + (CHOOSE i \in mask : \A j \in mask : i <= j))
            ELSE SimdLoop(byte, hay, p + SIMD_WIDTH)
    ELSE ScalarTail(byte, hay, p)

memchr(byte, hay) == SimdLoop(byte, hay, 0)

-----------------------------------------------------------------------------
(* parse_temp_fast: main.rs 197-225 *)

\* The digit loop: value = value * 10 + (byte - b'0') as i16, '.' skipped.
RECURSIVE ParseLoop(_, _, _, _)
ParseLoop(t, idx, value, checks) ==
    IF idx >= Len(t) THEN [ok |-> TRUE, val |-> value]
    ELSE LET byte == ByteAt(t, idx)
         IN IF byte = DOT THEN ParseLoop(t, idx + 1, value, checks)
            ELSE LET d == SubU8(byte, checks)
                     m == ArithI16(value * 10, checks)
                     a == ArithI16(m.val + d.val, checks)
                 IN IF d.ok /\ m.ok /\ a.ok
                    THEN ParseLoop(t, idx + 1, a.val, checks)
                    ELSE [ok |-> FALSE, val |-> 0]

\* The parser with the sign never applied.
ParseTempNoSign(t, checks) ==
    IF Len(t) = 0 THEN [ok |-> FALSE, val |-> 0]
    ELSE ParseLoop(t, IF ByteAt(t, 0) = MINUS THEN 1 ELSE 0, 0, checks)

\* temp[0] panics on an empty slice; the result is value * sign.
parse_temp_fast(t, checks) ==
    IF Len(t) = 0 THEN [ok |-> FALSE, val |-> 0]
    ELSE LET neg == ByteAt(t, 0) = MINUS
             v == ParseLoop(t, IF neg THEN 1 ELSE 0, 0, checks)
         IN IF ~v.ok THEN v
            ELSE ArithI16(v.val * (IF neg THEN -1 ELSE 1), checks)

-----------------------------------------------------------------------------
(* The statistics table HashMap<Vec<u8>, (i16, i64, usize, i16)>: a function *)
(* from station names to tuples <<min, sum, count, max>>.                    *)

EmptyTable == << >>

\* .or_insert((temperature, i64::from(temperature), 1, temperature))
OrInsert(t) == <<t, t, 1, t>>

\* The update with the minimum overwritten instead of compared.
AndModifyOverwriteMin(e, t) ==
    <<t, e[2] + t, e[3] + 1, MaxOf(e[4], t)>>

\* .and_modify(|e| ..) of process_line
AndModify(e, t) ==
    <<MinOf(e[1], t), e[2] + t, e[3] + 1, MaxOf(e[4], t)>>

\* stats.entry(station).and_modify(..).or_insert(..)
Upsert(table, station, t) ==
    [k \in DOMAIN table \cup {station} |->
        IF k = station
        THEN (IF station \in DOMAIN table THEN AndModify(table[station], t) ELSE OrInsert(t))
        ELSE table[k]]

\* process_line: main.rs 167-191.  memchr(b';', line).unwrap() panics on None.
process_line(line, table, checks) ==
    LET semicolon_pos == memchr(SEMICOLON, line)
    IN IF ~semicolon_pos.some THEN [ok |-> FALSE, stats |-> table]
       ELSE LET station == Slice(line, 0, semicolon_pos.val)
                temp_bytes == SliceFrom(line, semicolon_pos.val + 1)
                temperature == parse_temp_fast(temp_bytes, checks)
            IN IF ~temperature.ok THEN [ok |-> FALSE, stats |-> table]
               ELSE [ok |-> TRUE, stats |-> Upsert(table, station, temperature.val)]

\* One test-and-iteration of the while loop of process_chunk: main.rs 146-159.
ChunkIter(d, p, table, checks) ==
    IF p >= Len(d) THEN [pc |-> "return", pos |-> p, stats |-> table]
    ELSE LET nl == memchr(NEWLINE, SliceFrom(d, p))
         IN IF ~nl.some THEN [pc |-> "return", pos |-> p, stats |-> table]
            ELSE LET line_end == p + nl.val
                     r == process_line(Slice(d, p, line_end), table, checks)
                 IN IF line_end > p
                    THEN (IF r.ok
                          THEN [pc |-> "loop", pos |-> line_end + 1, stats |-> r.stats]
                          ELSE [pc |-> "panic", pos |-> p, stats |-> table])
                    ELSE [pc |-> "loop", pos |-> line_end + 1, stats |-> table]

RECURSIVE ChunkLoop(_, _, _, _)
ChunkLoop(d, p, table, checks) ==
    LET r == ChunkIter(d, p, table, checks)
    IN IF r.pc = "loop" THEN ChunkLoop(d, r.pos, r.stats, checks)
       ELSE [ok |-> r.pc = "return", stats |-> r.stats]

\* process_chunk: main.rs 140-162
process_chunk(d, checks) == ChunkLoop(d, 0, EmptyTable, checks)

-----------------------------------------------------------------------------
(* split_at_newlines: main.rs 78-101.  A chunk &data[from..to] is the range *)
(* [from |-> .., to |-> ..] of the buffer.                                   *)

ChunkBytes(d, c) == Slice(d, c.from, c.to)

\* The real end of a chunk without the + 1 that steps over the newline.
ActualEndAtNewline(d, end) ==
    IF end < Len(d)
    THEN LET nl == memchr(NEWLINE, SliceFrom(d, end))
         IN end + (IF nl.some THEN nl.val ELSE Len(d) - end)
    ELSE Len(d)

\* end + memchr(b'\n', &data[end..]).unwrap_or(data.len() - end) + 1, or data.len()
ActualEnd(d, end) ==
    IF end < Len(d)
    THEN LET nl == memchr(NEWLINE, SliceFrom(d, end))
         IN end + (IF nl.some THEN nl.val ELSE Len(d) - end) + 1
    ELSE Len(d)

\* One test-and-iteration of the while loop.  &data[start..actual_end] panics
\* when actual_end exceeds data.len().
SplitIter(d, size, st, cs) ==
    IF st >= Len(d) THEN [pc |-> "return", start |-> st, chunks |-> cs]
    ELSE LET end == MinOf(st + size, Len(d))
             actual_end == ActualEnd(d, end)
         IN IF actual_end > Len(d) \/ st > actual_end
            THEN [pc |-> "panic", start |-> st, chunks |-> cs]
            ELSE [pc |-> "loop", start |-> actual_end,
                  chunks |-> Append(cs, [from |-> st, to |-> actual_end])]

RECURSIVE SplitLoop(_, _, _, _)
SplitLoop(d, size, st, cs) ==
    LET r == SplitIter(d, size, st, cs)
    IN IF r.pc = "loop" THEN SplitLoop(d, size, r.start, r.chunks)
       ELSE [ok |-> r.pc = "return", chunks |-> r.chunks]

split_at_newlines(d, size) == SplitLoop(d, size, 0, << >>)

-----------------------------------------------------------------------------
(* The merge loop of main: main.rs 55-71 *)

\* The merge closure with the minimum overwritten instead of compared.
MergeModifyOverwriteMin(e, s) ==
    <<s[1], e[2] + s[2], e[3] + s[3], MaxOf(e[4], s[4])>>

\* .and_modify(|e| ..) of main: min of mins, sum of sums, sum of counts, max of maxs
MergeModify(e, s) ==
    <<MinOf(e[1], s[1]), e[2] + s[2], e[3] + s[3], MaxOf(e[4], s[4])>>

\* stats.entry(station).and_modify(..).or_insert((min, sum, count, max))
MergeEntry(table, station, s) ==
    [k \in DOMAIN table \cup {station} |->
        IF k = station
        THEN (IF station \in DOMAIN table THEN MergeModify(table[station], s) ELSE s)
        ELSE table[k]]

\* The table without one key (the entry the iterator has consumed).
Without(table, station) == [k \in DOMAIN table \ {station} |-> table[k]]

\* for (station, (min, sum, count, max)) in chunk_stats { .. }: the entries are
\* distinct keys, visited once each in the map's iteration order.
RECURSIVE MergeTable(_, _)
MergeTable(table, from) ==
    IF DOMAIN from = {} THEN table
    ELSE LET station == CHOOSE k \in DOMAIN from : TRUE
         IN MergeTable(MergeEntry(table, station, from[station]), Without(from, station))

\* for handle in handles { let chunk_stats = handle.join().unwrap(); .. }
RECURSIVE MergeHandles(_, _, _)
MergeHandles(table, results, i) ==
    IF i > Len(results) THEN [ok |-> TRUE, stats |-> table]
    ELSE IF ~results[i].ok THEN [ok |-> FALSE, stats |-> table]
    ELSE MergeHandles(MergeTable(table, results[i].stats), results, i + 1)

\* main, from the mapped buffer to the table handed to print_results: main.rs 32-71
RunMain(d, n, checks) ==
    LET chunk_size == Len(d) \div n
        split == split_at_newlines(d, chunk_size)
    IN IF ~split.ok THEN [ok |-> FALSE, stats |-> EmptyTable]
       ELSE MergeHandles(EmptyTable,
                [i \in 1..Len(split.chunks) |->
                    process_chunk(ChunkBytes(d, split.chunks[i]), checks)], 1)

-----------------------------------------------------------------------------
(* Variables a specification does not use keep these values. *)

MemIdle   == needle = 0 /\ haystack = << >> /\ found = None /\ mpc = "idle"
ParseIdle == temp = << >> /\ parsed = [ok |-> TRUE, val |-> 0] /\ tpc = "idle"
SplitIdle == approximate_chunk_size = 0 /\ start = 0 /\ chunks = << >> /\ spc = "idle"
ChunkIdle == cdata = << >> /\ pos = 0 /\ cstats = EmptyTable /\ cpc = "idle"
MainIdle  ==
    /\ n_threads = 1 /\ main_pc = "idle" /\ wpc = << >> /\ wpos = << >> /\ wstats = << >>
    /\ handle_idx = 0 /\ chunk_stats = EmptyTable /\ stats = EmptyTable
MergeIdle == tables = << >> /\ pool = << >>

-----------------------------------------------------------------------------
(* SpecMemchr: calls of memchr.  A haystack is a run of filler bytes with at *)
(* most one ';' and one '\n' placed anywhere, like a line of the input.      *)

\* n filler bytes 'A' (65), with byte x at offset a and byte y at offset b when these
\* offsets are inside (a = b leaves only y; an offset of n leaves the byte out).
Haystack(n, a, x, b, y) ==
    [i \in 1..n |-> IF i = b + 1 THEN y ELSE IF i = a + 1 THEN x ELSE 65]

InitMemchr ==
    /\ overflow_checks = FALSE
    /\ needle \in {NEWLINE, SEMICOLON}
    /\ \E n \in 0..MaxHaystackLen :
         \E a \in 0..n, b \in 0..n :
            /\ a <= b
            /\ haystack = Haystack(n, a, SEMICOLON, b, NEWLINE)
    /\ found = None
    /\ mpc = "call"
    /\ data = << >> /\ runs = << >>
    /\ ParseIdle /\ SplitIdle /\ ChunkIdle /\ MainIdle /\ MergeIdle

MemchrCall ==
    /\ mpc = "call"
    /\ found' = memchr(needle, haystack)
    /\ mpc' = "ret"
    /\ UNCHANGED <<overflow_checks, needle, haystack, parseVars, data, splitVars,
                   chunkVars, mainVars, runs, mergeVars>>

SpecMemchr == InitMemchr /\ [][MemchrCall]_vars

-----------------------------------------------------------------------------
(* SpecParse: calls of parse_temp_fast on the values of the grammar and on   *)
(* values outside it.                                                        *)

Digits == 48..57

\* optional '-', 1 or 2 integer digits, '.', one fractional digit
GrammarValues ==
    LET unsigned == {<<a, DOT, f>> : a \in Digits, f \in Digits}
                    \cup {<<a, b, DOT, f>> : a \in Digits, b \in Digits, f \in Digits}
    IN unsigned \cup {<<MINUS>> \o u : u \in unsigned}

\* "", "-", "12", "1.23", "1.", ".5", "1,5", "1-.5", "+1.5", "999.99"
MalformedValues ==
    { << >>, <<MINUS>>, <<49, 50>>, <<49, DOT, 50, 51>>, <<49, DOT>>, <<DOT, 53>>,
      <<49, 44, 53>>, <<49, MINUS, DOT, 53>>, <<43, 49, DOT, 53>>,
      <<57, 57, 57, DOT, 57, 57>> }

InitParse ==
    /\ overflow_checks \in BOOLEAN
    /\ temp \in GrammarValues \cup MalformedValues
    /\ parsed = [ok |-> TRUE, val |-> 0]
    /\ tpc = "call"
    /\ data = << >> /\ runs = << >>
    /\ MemIdle /\ SplitIdle /\ ChunkIdle /\ MainIdle /\ MergeIdle

ParseCall ==
    /\ tpc = "call"
    /\ parsed' = parse_temp_fast(temp, overflow_checks)
    /\ tpc' = "ret"
    /\ UNCHANGED <<overflow_checks, temp, memVars, data, splitVars, chunkVars,
                   mainVars, runs, mergeVars>>

SpecParse == InitParse /\ [][ParseCall]_vars

-----------------------------------------------------------------------------
(* SpecSplit: split_at_newlines on every buffer of newlines and bytes 'A'    *)
(* (65) up to MaxBufLen, with every approximate chunk size.                  *)

RECURSIVE SeqsUpTo(_, _)
SeqsUpTo(S, n) ==
    IF n = 0 THEN {<< >>}
    ELSE LET shorter == SeqsUpTo(S, n - 1)
         IN shorter \cup {Append(q, x) : q \in shorter, x \in S}

InitSplit ==
    /\ overflow_checks = FALSE
    /\ data \in SeqsUpTo({NEWLINE, 65}, MaxBufLen)
    /\ approximate_chunk_size \in 0..(MaxBufLen + 1)
    /\ start = 0
    /\ chunks = << >>
    /\ spc = "loop"
    /\ runs = << >>
    /\ MemIdle /\ ParseIdle /\ ChunkIdle /\ MainIdle /\ MergeIdle

\* The while loop of split_at_newlines, one iteration at a time.
SplitStep ==
    /\ spc = "loop"
    /\ LET r == SplitIter(data, approximate_chunk_size, start, chunks)
       IN /\ spc' = r.pc
          /\ start' = r.start
          /\ chunks' = r.chunks
    /\ UNCHANGED <<overflow_checks, data, approximate_chunk_size, memVars, parseVars,
                   chunkVars, mainVars, runs, mergeVars>>

SpecSplit == InitSplit /\ [][SplitStep]_vars

-----------------------------------------------------------------------------
(* Claims about memchr, under SpecMemchr. *)

\* The byte-by-byte scan: the least offset holding the byte, if there is one.
NaiveScan(byte, hay) ==
    IF \E i \in 1..Len(hay) : hay[i] = byte
    THEN Some((CHOOSE i \in 1..Len(hay) :
                  hay[i] = byte /\ \A j \in 1..(i - 1) : hay[j] /= byte) - 1)
    ELSE None

-----------------------------------------------------------------------------
(* Claims about parse_temp_fast, under SpecParse. *)

DigitValue(byte) == byte - 48

\* The decimal value of a string of the grammar, times ten, read by position.
ScaledValue(t) ==
    LET neg == t[1] = MINUS
        u == IF neg THEN Tail(t) ELSE t
        magnitude == IF Len(u) = 3
                     THEN 10 * DigitValue(u[1]) + DigitValue(u[3])
                     ELSE 100 * DigitValue(u[1]) + 10 * DigitValue(u[2]) + DigitValue(u[4])
    IN IF neg THEN 0 - magnitude ELSE magnitude

\* C6: for every value of the grammar (optional '-', 1 or 2 integer digits, '.',
\* one fractional digit) parse_temp_fast returns the value times ten, with the
\* sign applied once, in either build profile.
C6_ParseScalesByTen ==
    (tpc = "ret" /\ temp \in GrammarValues)
        => parsed = [ok |-> TRUE, val |-> ScaledValue(temp)]

\* "-12.3" has been parsed to -123.
C6_Witness ==
    /\ tpc = "ret"
    /\ temp = <<MINUS, 49, 50, DOT, 51>>
    /\ parsed = [ok |-> TRUE, val |-> -123]

-----------------------------------------------------------------------------
(* Claims about split_at_newlines, under SpecSplit. *)

\* The bytes of the chunks, in order.
RECURSIVE ConcatChunks(_, _, _)
ConcatChunks(d, cs, i) ==
    IF i > Len(cs) THEN << >>
    ELSE ChunkBytes(d, cs[i]) \o ConcatChunks(d, cs, i + 1)

Contiguous(cs) ==
    /\ \A i \in 1..Len(cs) : cs[i].from <= cs[i].to
    /\ cs /= << >> => cs[1].from = 0
    /\ \A i \in 1..(Len(cs) - 1) : cs[i].to = cs[i + 1].from

\* C1: for every buffer and every approximate chunk size, split_at_newlines
\* returns chunks that are contiguous and non-overlapping and whose
\* concatenation is the buffer.
C1_SplitPartitionsBuffer ==
    spc /= "loop" =>
        /\ spc = "return"
        /\ Contiguous(chunks)
        /\ ConcatChunks(data, chunks, 1) = data

\* Offset o is where a record starts or ends: the start of the buffer, one
\* past a newline, or the end of the buffer.
RecordStart(d, o) == o = 0 \/ ByteAt(d, o - 1) = NEWLINE
RecordEnd(d, o) == o = Len(d) \/ (o > 0 /\ ByteAt(d, o - 1) = NEWLINE)

\* The records of the buffer as ranges: from a record start to one past the
\* next newline, or to the end of the buffer for an unterminated last record.
Records(d) ==
    {[from |-> a, to |-> b] : a \in 0..(Len(d) - 1), b \in 1..Len(d)} \cap
    {r \in [from : 0..Len(d), to : 0..Len(d)] :
        /\ r.from < r.to
        /\ RecordStart(d, r.from)
        /\ RecordEnd(d, r.to)
        /\ \A o \in r.from..(r.to - 2) : ByteAt(d, o) /= NEWLINE}

\* C4: every chunk starts at the first byte of a record and ends one past a
\* newline or at the end of the buffer; when the split returns, the last chunk
\* ends at the end of the buffer and every record lies whole in exactly one
\* chunk; a chunk whose approximate end start + approximate_chunk_size holds a
\* newline ends just past that newline.
C4_ChunksAreRecordAligned ==
    /\ \A i \in 1..Len(chunks) :
          /\ RecordStart(data, chunks[i].from)
          /\ RecordEnd(data, chunks[i].to)
          /\ LET split_at == chunks[i].from + approximate_chunk_size
             IN (split_at < Len(data) /\ ByteAt(data, split_at) = NEWLINE)
                   => chunks[i].to = split_at + 1
    /\ spc = "return" =>
          /\ chunks /= << >> => chunks[Len(chunks)].to = Len(data)
          /\ \A r \in Records(data) :
                Cardinality({i \in 1..Len(chunks) :
                    chunks[i].from <= r.from /\ r.to <= chunks[i].to}) = 1
          /\ \A r \in Records(data) : \A i \in 1..Len(chunks) :
                \/ (chunks[i].from <= r.from /\ r.to <= chunks[i].to)
                \/ chunks[i].to <= r.from
                \/ r.to <= chunks[i].from

\* The split has returned two or more chunks of a buffer with an unterminated
\* last record, one of them cut at a newline that sits on its approximate end.
C4_Witness ==
    /\ spc = "return"
    /\ Len(chunks) >= 2
    /\ approximate_chunk_size > 0
    /\ ByteAt(data, Len(data) - 1) /= NEWLINE
    /\ \E i \in 1..Len(chunks) :
          LET split_at == chunks[i].from + approximate_chunk_size
          IN split_at < Len(data) /\ ByteAt(data, split_at) = NEWLINE

-----------------------------------------------------------------------------
(* SpecChunk: process_chunk on chunks made of up to MaxRecords lines, each   *)
(* followed by a newline except, possibly, the last.                         *)

\* "A;1.5", "A;-0.5", "B;12.3", "B;-9.9"
WellFormedLines ==
    { <<65, SEMICOLON, 49, DOT, 53>>,
      <<65, SEMICOLON, MINUS, 48, DOT, 53>>,
      <<66, SEMICOLON, 49, 50, DOT, 51>>,
      <<66, SEMICOLON, MINUS, 57, DOT, 57>> }

\* "", "A", "A;", "A;-", "A;12", "A;1,5"
MalformedLines ==
    { << >>,
      <<65>>,
      <<65, SEMICOLON>>,
      <<65, SEMICOLON, MINUS>>,
      <<65, SEMICOLON, 49, 50>>,
      <<65, SEMICOLON, 49, 44, 53>> }

\* The buffers of exactly n lines of L, each followed by a newline.
RECURSIVE Terminated(_, _)
Terminated(L, n) ==
    IF n = 0 THEN {<< >>}
    ELSE {b \o l \o <<NEWLINE>> : b \in Terminated(L, n - 1), l \in L}

\* Up to n lines; the last line may lack its newline.
Buffers(L, n) ==
    LET whole == UNION {Terminated(L, k) : k \in 0..n}
        open == UNION {{b \o l : b \in Terminated(L, k - 1), l \in L \ {<< >>}} : k \in 1..n}
    IN whole \cup open

InitChunk ==
    /\ overflow_checks \in BOOLEAN
    /\ cdata \in Buffers(WellFormedLines \cup MalformedLines, MaxRecords)
    /\ pos = 0
    /\ cstats = EmptyTable
    /\ cpc = "loop"
    /\ data = << >> /\ runs = << >>
    /\ MemIdle /\ ParseIdle /\ SplitIdle /\ MainIdle /\ MergeIdle

\* The while loop of process_chunk, one iteration at a time.
ChunkStep ==
    /\ cpc = "loop"
    /\ LET r == ChunkIter(cdata, pos, cstats, overflow_checks)
       IN /\ cpc' = r.pc
          /\ pos' = r.pos
          /\ cstats' = r.stats
    /\ UNCHANGED <<overflow_checks, cdata, memVars, parseVars, data, splitVars,
                   mainVars, runs, mergeVars>>

SpecChunk == InitChunk /\ [][ChunkStep]_vars

-----------------------------------------------------------------------------
(* Claims about process_chunk, under SpecChunk. *)

\* The lines of a buffer in order, without their newlines; an unterminated
\* last line is a line too.
RECURSIVE LinesOf(_)
LinesOf(d) ==
    IF d = << >> THEN << >>
    ELSE IF \E i \in 1..Len(d) : d[i] = NEWLINE
    THEN LET n == CHOOSE i \in 1..Len(d) : d[i] = NEWLINE /\ \A j \in 1..(i - 1) : d[j] /= NEWLINE
         IN <<SubSeq(d, 1, n - 1)>> \o LinesOf(SubSeq(d, n + 1, Len(d)))
    ELSE <<d>>

IsDigit(byte) == byte \in Digits

\* optional '-', 1 or 2 integer digits, '.', exactly one fractional digit
InGrammar(v) ==
    LET u == IF v /= << >> /\ v[1] = MINUS THEN Tail(v) ELSE v
    IN \/ Len(u) = 3 /\ IsDigit(u[1]) /\ u[2] = DOT /\ IsDigit(u[3])
       \/ Len(u) = 4 /\ IsDigit(u[1]) /\ IsDigit(u[2]) /\ u[3] = DOT /\ IsDigit(u[4])

\* key ';' value: a non-empty key without separators and a value of the grammar
WellFormed(line) ==
    \E k \in 2..Len(line) :
        /\ line[k] = SEMICOLON
        /\ \A j \in 1..(k - 1) : line[j] /= SEMICOLON /\ line[j] /= NEWLINE
        /\ InGrammar(SubSeq(line, k + 1, Len(line)))

KeyOf(line) ==
    SubSeq(line, 1, (CHOOSE k \in 1..Len(line) : line[k] = SEMICOLON /\ \A j \in 1..(k - 1) : line[j] /= SEMICOLON) - 1)

ValueOf(line) ==
    ScaledValue(SubSeq(line, 1 + (CHOOSE k \in 1..Len(line) : line[k] = SEMICOLON /\ \A j \in 1..(k - 1) : line[j] /= SEMICOLON), Len(line)))

RECURSIVE SumOver(_, _)
SumOver(f, S) ==
    IF S = {} THEN 0
    ELSE LET x == CHOOSE x \in S : TRUE IN f[x] + SumOver(f, S \ {x})

\* The table a sequence of well-formed lines stands for: per key, the least
\* value, the sum of the values, the number of lines and the greatest value.
TableOf(lines) ==
    LET keys == {KeyOf(lines[i]) : i \in 1..Len(lines)}
        at(k) == {i \in 1..Len(lines) : KeyOf(lines[i]) = k}
        val == [i \in 1..Len(lines) |-> ValueOf(lines[i])]
    IN [k \in keys |->
          << CHOOSE v \in {val[i] : i \in at(k)} : \A i \in at(k) : v <= val[i],
             SumOver(val, at(k)),
             Cardinality(at(k)),
             CHOOSE v \in {val[i] : i \in at(k)} : \A i \in at(k) : v >= val[i] >>]

\* The part of the chunk the loop has consumed.
Consumed == SubSeq(cdata, 1, pos)

AllWellFormed(lines) == \A i \in 1..Len(lines) : WellFormed(lines[i])

\* C5: for a chunk of well-formed, newline-terminated records, in every state
\* of the loop the table holds exactly the keys of the records consumed so far,
\* each with (minimum, sum, number, maximum) of its values, so that
\* min <= every observed value <= max and count >= 1; the loop returns with
\* every record consumed.
C5_TableIsMinSumCountMax ==
    (cpc /= "idle" /\ AllWellFormed(LinesOf(cdata))
         /\ (cdata = << >> \/ cdata[Len(cdata)] = NEWLINE))
    => /\ cpc /= "panic"
       /\ cstats = TableOf(LinesOf(Consumed))
       /\ \A k \in DOMAIN cstats :
             /\ cstats[k][3] >= 1
             /\ \A i \in 1..Len(LinesOf(Consumed)) :
                   KeyOf(LinesOf(Consumed)[i]) = k
                   => /\ cstats[k][1] <= ValueOf(LinesOf(Consumed)[i])
                      /\ ValueOf(LinesOf(Consumed)[i]) <= cstats[k][4]
       /\ cpc = "return" => pos = Len(cdata)

\* The loop has returned from a chunk of three well-formed records, two of
\* them of one key with different values.
C5_Witness ==
    /\ cpc = "return"
    /\ AllWellFormed(LinesOf(cdata))
    /\ Len(LinesOf(cdata)) = 3
    /\ cdata[Len(cdata)] = NEWLINE
    /\ \E k \in DOMAIN cstats : cstats[k][3] = 2 /\ cstats[k][1] < cstats[k][4]
    /\ Cardinality(DOMAIN cstats) = 2

\* C8: a malformed record (no ';', or a value outside the grammar) is skipped
\* or fails the run; no numeric value is recorded for it: the counts in the
\* table never exceed the number of well-formed records consumed.
C8_MalformedNeverRecorded ==
    cpc /= "idle" =>
        SumOver([k \in DOMAIN cstats |-> cstats[k][3]], DOMAIN cstats)
            <= Cardinality({i \in 1..Len(LinesOf(Consumed)) : WellFormed(LinesOf(Consumed)[i])})

-----------------------------------------------------------------------------
(* SpecRun: whole runs of main on one buffer, once per worker count          *)
(* (thread::available_parallelism() is anything from 1 to MaxThreads).       *)

NotRun == [done |-> FALSE, ok |-> TRUE, stats |-> EmptyTable]

InitRun ==
    /\ overflow_checks \in BOOLEAN
    /\ data \in Buffers(WellFormedLines, MaxRecords)
    /\ runs = [n \in 1..MaxThreads |-> NotRun]
    /\ MemIdle /\ ParseIdle /\ SplitIdle /\ ChunkIdle /\ MainIdle /\ MergeIdle

\* One run of main with n worker threads available.
RunWith(n) ==
    /\ ~runs[n].done
    /\ LET r == RunMain(data, n, overflow_checks)
       IN runs' = [runs EXCEPT ![n] = [done |-> TRUE, ok |-> r.ok, stats |-> r.stats]]
    /\ UNCHANGED <<overflow_checks, data, memVars, parseVars, splitVars, chunkVars,
                   mainVars, mergeVars>>

NextRun == \E n \in 1..MaxThreads : RunWith(n)

SpecRun == InitRun /\ [][NextRun]_vars

\* C2: for one buffer, the final merged table is the same for every worker
\* count from 1 to MaxThreads.
C2_SameTableForEveryWorkerCount ==
    \A n \in DOMAIN runs, m \in DOMAIN runs :
        (runs[n].done /\ runs[m].done)
            => (runs[n].ok = runs[m].ok /\ runs[n].stats = runs[m].stats)

TotalCount(table) ==
    SumOver([k \in DOMAIN table |-> table[k][3]], DOMAIN table)

\* C9: the last record is counted once whether or not a newline follows it:
\* the counts of the final table add up to the number of records of the input.
C9_EveryRecordCountedOnce ==
    \A n \in DOMAIN runs :
        (runs[n].done /\ runs[n].ok) => TotalCount(runs[n].stats) = Len(LinesOf(data))

-----------------------------------------------------------------------------
(* SpecMerge: up to MaxTables worker tables, merged pairwise in any order    *)
(* and any grouping with the merge of main.                                  *)

StationNames == {<<65>>, <<66>>}
Entries == {<<-5, -5, 1, -5>>, <<3, 15, 2, 12>>}

WorkerTables ==
    UNION {[K -> Entries] : K \in SUBSET StationNames}

InitMerge ==
    /\ overflow_checks = FALSE
    /\ \E n \in 1..MaxTables : tables \in [1..n -> WorkerTables]
    /\ pool = tables
    /\ data = << >> /\ runs = << >>
    /\ MemIdle /\ ParseIdle /\ SplitIdle /\ ChunkIdle /\ MainIdle

\* Fold table j of the pool into table i with the merge loop of main.
MergePair(i, j) ==
    /\ i /= j
    /\ LET merged == MergeTable(pool[i], pool[j])
           kept == [k \in 1..Len(pool) |-> IF k = i THEN merged ELSE pool[k]]
       IN pool' = [k \in 1..(Len(pool) - 1) |-> IF k < j THEN kept[k] ELSE kept[k + 1]]
    /\ UNCHANGED <<overflow_checks, tables, data, memVars, parseVars, splitVars,
                   chunkVars, mainVars, runs>>

NextMerge == \E i \in 1..Len(pool), j \in 1..Len(pool) : MergePair(i, j)

SpecMerge == InitMerge /\ [][NextMerge]_vars

\* What main computes: the tables folded into an empty table in handle order.
MainOrder(ts) ==
    MergeHandles(EmptyTable, [i \in 1..Len(ts) |-> [ok |-> TRUE, stats |-> ts[i]]], 1).stats

\* C3: whatever the order and grouping of the pairwise merges, the one table
\* left is the table main computes by folding the worker tables in handle
\* order; and at every point, folding what is left gives that table.
C3_MergeOrderIrrelevant ==
    pool /= << >> =>
        /\ MainOrder(pool) = MainOrder(tables)
        /\ Len(pool) = 1 => pool[1] = MainOrder(tables)

\* Three tables with a common key, the first and the last with different
\* entries for it, have been merged into one.
C3_Witness ==
    /\ Len(tables) = 3
    /\ Len(pool) = 1
    /\ \E k \in StationNames :
          /\ \A i \in 1..3 : k \in DOMAIN tables[i]
          /\ tables[1][k] /= tables[3][k]
          /\ pool[1][k][3] = tables[1][k][3] + tables[2][k][3] + tables[3][k][3]

-----------------------------------------------------------------------------
(* SpecMain: main and its worker threads, interleaved.  main splits the      *)
(* buffer, spawns one thread per chunk, then joins the handles in order and  *)
(* folds each joined table into stats.  A panic of main ends the process.    *)

\* "A;1.5", "B;-9.9", and "A", which has no ';'
MainLines ==
    { <<65, SEMICOLON, 49, DOT, 53>>,
      <<66, SEMICOLON, MINUS, 57, DOT, 57>>,
      <<65>> }

InitMain ==
    /\ overflow_checks \in BOOLEAN
    /\ data \in Buffers(MainLines, MaxRecords)
    /\ n_threads \in 1..MaxThreads
    /\ approximate_chunk_size = Len(data) \div n_threads
    /\ start = 0
    /\ chunks = << >>
    /\ spc = "loop"
    /\ main_pc = "split"
    /\ wpc = << >> /\ wpos = << >> /\ wstats = << >>
    /\ handle_idx = 0
    /\ chunk_stats = EmptyTable
    /\ stats = EmptyTable
    /\ runs = << >>
    /\ MemIdle /\ ParseIdle /\ ChunkIdle /\ MergeIdle

MainRunning == main_pc \notin {"panic", "done"}

\* split_at_newlines has returned or panicked: main.rs 38
MainSplitDone ==
    /\ main_pc = "split"
    /\ spc /= "loop"
    /\ main_pc' = IF spc = "return" THEN "spawn" ELSE "panic"
    /\ UNCHANGED <<overflow_checks, data, splitVars, n_threads, wpc, wpos, wstats,
                   handle_idx, chunk_stats, stats, memVars, parseVars, chunkVars,
                   runs, mergeVars>>

\* thread::spawn(move || process_chunk(chunks[i])) for the next i: main.rs 44-49
MainSpawn ==
    /\ main_pc = "spawn"
    /\ Len(wpc) < Len(chunks)
    /\ wpc' = Append(wpc, "running")
    /\ wpos' = Append(wpos, 0)
    /\ wstats' = Append(wstats, EmptyTable)
    /\ UNCHANGED <<overflow_checks, data, splitVars, n_threads, main_pc, handle_idx,
                   chunk_stats, stats, memVars, parseVars, chunkVars, runs, mergeVars>>

\* .collect(), then HashMap::with_hasher: main.rs 49-52
MainCollect ==
    /\ main_pc = "spawn"
    /\ Len(wpc) = Len(chunks)
    /\ main_pc' = "for"
    /\ stats' = EmptyTable
    /\ UNCHANGED <<overflow_checks, data, splitVars, n_threads, wpc, wpos, wstats,
                   handle_idx, chunk_stats, memVars, parseVars, chunkVars, runs, mergeVars>>

\* for handle in handles: the next handle, or the end of the loop: main.rs 55
MainNextHandle ==
    /\ main_pc = "for"
    /\ IF handle_idx < Len(wpc)
       THEN handle_idx' = handle_idx + 1 /\ main_pc' = "join"
       ELSE handle_idx' = handle_idx /\ main_pc' = "print"
    /\ UNCHANGED <<overflow_checks, data, splitVars, n_threads, wpc, wpos, wstats,
                   chunk_stats, stats, memVars, parseVars, chunkVars, runs, mergeVars>>

\* A join that returns without waiting for the thread.
JoinNoWait(i) == TRUE

\* handle.join() returns once the thread has ended: main.rs 56
JoinReady(i) == wpc[i] \in {"finished", "panicked"}

\* let chunk_stats = handle.join().unwrap(): the thread's table moves to main,
\* or main panics when the thread has panicked: main.rs 56
MainJoin ==
    /\ main_pc = "join"
    /\ JoinReady(handle_idx)
    /\ IF wpc[handle_idx] = "panicked"
       THEN /\ main_pc' = "panic"
            /\ UNCHANGED <<chunk_stats, wstats>>
       ELSE /\ main_pc' = "merge"
            /\ chunk_stats' = wstats[handle_idx]
            /\ wstats' = [wstats EXCEPT ![handle_idx] = EmptyTable]
    /\ UNCHANGED <<overflow_checks, data, splitVars, n_threads, wpc, wpos, handle_idx,
                   stats, memVars, parseVars, chunkVars, runs, mergeVars>>

\* One iteration of for (station, ..) in chunk_stats, in any iteration order
\* of the map: main.rs 59-70
MainMergeEntry ==
    /\ main_pc = "merge"
    /\ \E station \in DOMAIN chunk_stats :
          /\ stats' = MergeEntry(stats, station, chunk_stats[station])
          /\ chunk_stats' = Without(chunk_stats, station)
    /\ UNCHANGED <<overflow_checks, data, splitVars, n_threads, main_pc, wpc, wpos,
                   wstats, handle_idx, memVars, parseVars, chunkVars, runs, mergeVars>>

\* The entries of chunk_stats are exhausted: main.rs 70-71
MainMergeDone ==
    /\ main_pc = "merge"
    /\ DOMAIN chunk_stats = {}
    /\ main_pc' = "for"
    /\ UNCHANGED <<overflow_checks, data, splitVars, n_threads, wpc, wpos, wstats,
                   handle_idx, chunk_stats, stats, memVars, parseVars, chunkVars,
                   runs, mergeVars>>

\* print_results(&stats) and the return of main: main.rs 73-74
MainPrint ==
    /\ main_pc = "print"
    /\ main_pc' = "done"
    /\ UNCHANGED <<overflow_checks, data, splitVars, n_threads, wpc, wpos, wstats,
                   handle_idx, chunk_stats, stats, memVars, parseVars, chunkVars,
                   runs, mergeVars>>

\* One iteration of the loop of process_chunk in thread i, up to its return
\* or panic: main.rs 47, 146-161
WorkerStep(i) ==
    /\ MainRunning
    /\ wpc[i] = "running"
    /\ LET r == ChunkIter(ChunkBytes(data, chunks[i]), wpos[i], wstats[i], overflow_checks)
       IN /\ wpc' = [wpc EXCEPT ![i] = IF r.pc = "loop" THEN "running"
                                       ELSE IF r.pc = "return" THEN "finished"
                                       ELSE "panicked"]
          /\ wpos' = [wpos EXCEPT ![i] = r.pos]
          /\ wstats' = [wstats EXCEPT ![i] = r.stats]
    /\ UNCHANGED <<overflow_checks, data, splitVars, n_threads, main_pc, handle_idx,
                   chunk_stats, stats, memVars, parseVars, chunkVars, runs, mergeVars>>

NextMain ==
    \/ (main_pc = "split" /\ SplitStep)
    \/ MainSplitDone
    \/ MainSpawn
    \/ MainCollect
    \/ MainNextHandle
    \/ MainJoin
    \/ MainMergeEntry
    \/ MainMergeDone
    \/ MainPrint
    \/ \E i \in 1..Len(wpc) : WorkerStep(i)

SpecMain == InitMain /\ [][NextMain]_vars

-----------------------------------------------------------------------------
(* Claims about the threads of main, under SpecMain. *)

WorkerEnded(i) == wpc[i] \in {"finished", "panicked"}

\* Thread i works on its table; main reads the table of the handle it merges.
WorkerAccesses(i) == wpc[i] = "running"
MainAccesses(i) == main_pc = "merge" /\ handle_idx = i

\* C10 as stated: merging into the final table starts only after all workers
\* have finished.
C10_MergeOnlyAfterAllWorkers ==
    main_pc = "merge" => \A i \in 1..Len(wpc) : WorkerEnded(i)

\* C10 as amended: every thread is spawned before the first join; the handles
\* are joined in spawn order and each table is merged right after its own
\* join, so a table is read by the merge only after its worker has completed
\* and handed it over, a worker still running has had no table of its own
\* merged, and no table is accessed by main and its worker at once.
C10_MergeOnlyAfterOwnWorker ==
    /\ main_pc \in {"for", "join", "merge", "print", "done"} => Len(wpc) = Len(chunks)
    /\ \A i \in 1..Len(wpc) :
          /\ MainAccesses(i) => wpc[i] = "finished"
          /\ ~(WorkerAccesses(i) /\ MainAccesses(i))
          /\ wpc[i] = "running" =>
                (handle_idx < i \/ (handle_idx = i /\ main_pc = "join"))
          /\ (handle_idx > i /\ main_pc /= "panic") => wpc[i] = "finished"
    /\ main_pc = "done" => \A i \in 1..Len(wpc) : wpc[i] = "finished"

\* main is merging the first table, which holds a record, while a later
\* worker is still running.
C10_Witness ==
    /\ main_pc = "merge"
    /\ handle_idx = 1
    /\ stats /= EmptyTable
    /\ \E i \in 2..Len(wpc) : wpc[i] = "running"

=============================================================================
